---- MODULE Spec2Model ----
(***************************************************************************)
(* Model of chess_g.py: the per-piece move generators                      *)
(* (Piece.get_legal_moves and its overrides), the singleton Board and the  *)
(* MOUSEBUTTONDOWN branch of Game.run, which is the selection/turn state   *)
(* machine.  Coordinates are (x, y) = (file, row); the grid is indexed     *)
(* grid[y][x] as in the source.                                            *)
(***************************************************************************)
EXTENDS Integers, Sequences, FiniteSets, TLC

VARIABLES
    grid,             \* Board().grid : row y -> column x -> piece or None
    turn,             \* Game.turn : "w" or "b"
    selected,         \* Game.selected : <<x, y>> or NoSelection
    highlight_moves,  \* Game.highlight_moves : list of <<x, y>>
    mouse,            \* pygame.mouse.get_pos(): the pointer's pixel, NoMouse while
                      \* it has not entered the window
    click,            \* (bx, by) of the last MOUSEBUTTONDOWN, NoClick before the first
    raised,           \* an IndexError left Game.run (the process has ended)
    prev_selected,    \* history: Game.selected as it was before the last click
    repeats,          \* history: 1 after a click on the selected square, 2 after
                      \* the next click when it is on that same square, else 0
    nmoves            \* history: number of committed moves so far

vars == <<grid, turn, selected, highlight_moves, mouse, click, raised,
          prev_selected, repeats, nmoves>>

----------------------------------------------------------------------------
(* Bounds of the model *)

\* committed moves explored from the initial position
MaxMoves == 2
\* committed moves explored when only pawns are picked up
MaxPawnMoves == 11
\* MOUSEBUTTONDOWN events are explored on files 0..MaxClickFile (all 8 rows)
MaxClickFile == 1
\* extra pieces placed around the piece under test in the generator checks
MaxBlockers == 1

----------------------------------------------------------------------------
(* Data *)

WIDTH == 640
HEIGHT == 640
SQ_SIZE == WIDTH \div 8

Coord == 0..7
Squares == Coord \X Coord
Colors == {"w", "b"}
Symbols == {"p", "r", "n", "b", "q", "k"}

None == [color |-> "-", symbol |-> "-"]
NoSelection == <<>>
NoClick == <<>>
NoMouse == <<>>
NoInstance == <<>>

\* Piece.__init__ with the subclass's symbol (has_moved is never written again)
Piece(c, s) == [color |-> c, symbol |-> s]

Pieces == {Piece(c, s) : c \in Colors, s \in Symbols}

InBoard(nx, ny) == 0 <= nx /\ nx < 8 /\ 0 <= ny /\ ny < 8

\* (bx, by) in self.highlight_moves
InList(m, list) == \E i \in 1..Len(list) : list[i] = m

ListSet(list) == {list[i] : i \in 1..Len(list)}

----------------------------------------------------------------------------
(* Reading the grid.  board[row][col] on Python lists: an index in -8..-1  *)
(* wraps around to index + 8, an index outside -8..7 raises IndexError.    *)
(* oob records that an index outside 0..7 was used.                        *)

GridRead(board, row, col) ==
    LET bad == row > 7 \/ row < -8 \/ col > 7 \/ col < -8
    IN  [ raised |-> bad,
          oob    |-> ~InBoard(col, row),
          val    |-> IF bad THEN None ELSE board[row % 8][col % 8] ]

\* The result of a generator: the list it returns, whether it raised instead
\* of returning, and whether it indexed the grid outside 0..7.
Result(moves, r, o) == [moves |-> moves, raised |-> r, oob |-> o]

\* sequential composition of two parts of a generator: a raise in the first
\* part ends the call, otherwise the lists are appended in order (each part
\* is bound once, as a value)
Cat(a, b) ==
    LET join(ra, rb) ==
            IF ra.raised THEN ra
            ELSE Result(ra.moves \o rb.moves, rb.raised, ra.oob \/ rb.oob)
    IN  CHOOSE r \in {join(ra, rb) : ra \in {a}, rb \in {b}} : TRUE

NoMoves == Result(<<>>, FALSE, FALSE)

----------------------------------------------------------------------------
(* Move generators *)

StepTarget_EmptyOnly(board, color, nx, ny) ==
    IF InBoard(nx, ny)
    THEN LET t == GridRead(board, ny, nx)
         IN  Result(IF t.val = None THEN << <<nx, ny>> >> ELSE <<>>,
                    t.raised, t.oob)
    ELSE NoMoves

\* King and Knight loop body: bounds check, then read, then the occupancy rule
StepTarget(board, color, nx, ny) ==
    IF InBoard(nx, ny)
    THEN LET t == GridRead(board, ny, nx)
         IN  Result(IF t.val = None \/ t.val.color # color
                    THEN << <<nx, ny>> >> ELSE <<>>,
                    t.raised, t.oob)
    ELSE NoMoves

RECURSIVE OffsetMoves(_, _, _, _, _, _)
OffsetMoves(board, color, x, y, offsets, i) ==
    IF i > Len(offsets) THEN NoMoves
    ELSE Cat(StepTarget(board, color, x + offsets[i][1], y + offsets[i][2]),
             OffsetMoves(board, color, x, y, offsets, i + 1))

\* for dx in [-1, 0, 1]: for dy in [-1, 0, 1]: skip dx == 0 and dy == 0
KingOffsets ==
    LET all == [k \in 1..9 |-> << ((k - 1) \div 3) - 1, ((k - 1) % 3) - 1 >>]
    IN  SelectSeq(all, LAMBDA d : ~(d[1] = 0 /\ d[2] = 0))

King_get_legal_moves(board, color, x, y) ==
    OffsetMoves(board, color, x, y, KingOffsets, 1)

KnightOffsets ==
    << <<-2, -1>>, <<-1, -2>>, <<1, -2>>, <<2, -1>>,
       <<2, 1>>, <<1, 2>>, <<-1, 2>>, <<-2, 1>> >>

Knight_get_legal_moves(board, color, x, y) ==
    OffsetMoves(board, color, x, y, KnightOffsets, 1)

RECURSIVE Ray_ThroughCaptures(_, _, _, _, _, _)
Ray_ThroughCaptures(board, color, nx, ny, dx, dy) ==
    IF ~InBoard(nx, ny) THEN NoMoves
    ELSE LET t == GridRead(board, ny, nx)
         IN  IF t.val = None \/ t.val.color # color
             THEN Cat(Result(<< <<nx, ny>> >>, t.raised, t.oob),
                      Ray_ThroughCaptures(board, color, nx + dx, ny + dy, dx, dy))
             ELSE Result(<<>>, t.raised, t.oob)

\* the while loop of Rook and Bishop, entered with the current (nx, ny)
RECURSIVE Ray(_, _, _, _, _, _)
Ray(board, color, nx, ny, dx, dy) ==
    IF ~InBoard(nx, ny) THEN NoMoves
    ELSE LET t == GridRead(board, ny, nx)
         IN  IF t.val = None
             THEN Cat(Result(<< <<nx, ny>> >>, t.raised, t.oob),
                      Ray(board, color, nx + dx, ny + dy, dx, dy))
             ELSE IF t.val.color # color
             THEN Result(<< <<nx, ny>> >>, t.raised, t.oob)
             ELSE Result(<<>>, t.raised, t.oob)

RECURSIVE Rays(_, _, _, _, _, _)
Rays(board, color, x, y, directions, i) ==
    IF i > Len(directions) THEN NoMoves
    ELSE Cat(Ray(board, color, x + directions[i][1], y + directions[i][2],
                 directions[i][1], directions[i][2]),
             Rays(board, color, x, y, directions, i + 1))

RookDirections == << <<1, 0>>, <<-1, 0>>, <<0, 1>>, <<0, -1>> >>

Rook_get_legal_moves(board, color, x, y) ==
    Rays(board, color, x, y, RookDirections, 1)

BishopDirections == << <<1, 1>>, <<-1, 1>>, <<-1, -1>>, <<1, -1>> >>

Bishop_get_legal_moves(board, color, x, y) ==
    Rays(board, color, x, y, BishopDirections, 1)

Queen_get_legal_moves_RookOnly(board, color, x, y) ==
    Rook_get_legal_moves(board, color, x, y)

Queen_get_legal_moves(board, color, x, y) ==
    Cat(Rook_get_legal_moves(board, color, x, y),
        Bishop_get_legal_moves(board, color, x, y))

PawnCapture_AnyColour(board, color, nx, ny) ==
    IF InBoard(nx, ny)
    THEN LET t == GridRead(board, ny, nx)
         IN  Result(IF t.val # None THEN << <<nx, ny>> >> ELSE <<>>,
                    t.raised, t.oob)
    ELSE NoMoves

\* the diagonal loop of Pawn: for dx in [-1, 1]
PawnCapture(board, color, nx, ny) ==
    IF InBoard(nx, ny)
    THEN LET t == GridRead(board, ny, nx)
         IN  Result(IF t.val # None /\ t.val.color # color
                    THEN << <<nx, ny>> >> ELSE <<>>,
                    t.raised, t.oob)
    ELSE NoMoves

PawnForward_WrongWay(board, color, x, y) ==
    LET dir == IF color = "w" THEN -1 ELSE 1
        start_row == IF color = "w" THEN 6 ELSE 1
        one == GridRead(board, y - dir, x)
        two == GridRead(board, y - 2 * dir, x)
    IN  IF one.raised THEN Result(<<>>, TRUE, one.oob)
        ELSE IF one.val # None THEN Result(<<>>, FALSE, one.oob)
        ELSE IF y # start_row THEN Result(<< <<x, y - dir>> >>, FALSE, one.oob)
        ELSE IF two.raised THEN Result(<< <<x, y - dir>> >>, TRUE, one.oob \/ two.oob)
        ELSE Result(<< <<x, y - dir>> >> \o
                    (IF two.val = None THEN << <<x, y - 2 * dir>> >> ELSE <<>>),
                    FALSE, one.oob \/ two.oob)

\* board[y - dir][x] and board[y - 2*dir][x] are read with no bounds check
PawnForward(board, color, x, y) ==
    LET dir == IF color = "w" THEN 1 ELSE -1
        start_row == IF color = "w" THEN 6 ELSE 1
        one == GridRead(board, y - dir, x)
        two == GridRead(board, y - 2 * dir, x)
    IN  IF one.raised THEN Result(<<>>, TRUE, one.oob)
        ELSE IF one.val # None THEN Result(<<>>, FALSE, one.oob)
        ELSE IF y # start_row THEN Result(<< <<x, y - dir>> >>, FALSE, one.oob)
        ELSE IF two.raised THEN Result(<< <<x, y - dir>> >>, TRUE, one.oob \/ two.oob)
        ELSE Result(<< <<x, y - dir>> >> \o
                    (IF two.val = None THEN << <<x, y - 2 * dir>> >> ELSE <<>>),
                    FALSE, one.oob \/ two.oob)

Pawn_get_legal_moves(board, color, x, y) ==
    LET dir == IF color = "w" THEN 1 ELSE -1
    IN  Cat(PawnForward(board, color, x, y),
            Cat(PawnCapture(board, color, x - 1, y - dir),
                PawnCapture(board, color, x + 1, y - dir)))

\* piece.get_legal_moves(board, x, y): dispatch on the piece's class
get_legal_moves(piece, board, x, y) ==
    CASE piece.symbol = "k" -> King_get_legal_moves(board, piece.color, x, y)
      [] piece.symbol = "q" -> Queen_get_legal_moves(board, piece.color, x, y)
      [] piece.symbol = "r" -> Rook_get_legal_moves(board, piece.color, x, y)
      [] piece.symbol = "b" -> Bishop_get_legal_moves(board, piece.color, x, y)
      [] piece.symbol = "n" -> Knight_get_legal_moves(board, piece.color, x, y)
      [] piece.symbol = "p" -> Pawn_get_legal_moves(board, piece.color, x, y)

----------------------------------------------------------------------------
(* Board *)

EmptyGrid == [y \in Coord |-> [x \in Coord |-> None]]

order == <<"r", "n", "b", "q", "k", "b", "n", "r">>

\* Board.init_pieces on the empty grid of Board.__new__
init_pieces ==
    [y \in Coord |-> [x \in Coord |->
        CASE y = 1 -> Piece("b", "p")
          [] y = 6 -> Piece("w", "p")
          [] y = 0 -> Piece("b", order[x + 1])
          [] y = 7 -> Piece("w", order[x + 1])
          [] OTHER -> None ]]

Board_Rebuilds(instance) == init_pieces

\* Board(): __new__ builds the grid only while _instance is None and returns
\* the one instance ever after; the value is that instance's grid
Board(instance) == IF instance = NoInstance THEN init_pieces ELSE instance

\* pygame.Rect(x * SQ_SIZE, (7 - y) * SQ_SIZE, SQ_SIZE, SQ_SIZE): where the
\* square (x, y) is drawn
Rect(x, y) ==
    [left |-> x * SQ_SIZE, top |-> (7 - y) * SQ_SIZE,
     width |-> SQ_SIZE, height |-> SQ_SIZE]

----------------------------------------------------------------------------
(* Game *)

ClickSquare_NoFlip(px, py) == <<px \div SQ_SIZE, py \div SQ_SIZE>>

\* bx, by = x // SQ_SIZE, 7 - (y // SQ_SIZE)
ClickSquare(px, py) == <<px \div SQ_SIZE, 7 - (py \div SQ_SIZE)>>

get_valid_moves_OtherTurn(board, t, x, y) ==
    LET piece == board[y][x]
    IN  IF piece = None \/ piece.color = t THEN NoMoves
        ELSE get_legal_moves(piece, board, x, y)

\* Game.get_valid_moves
get_valid_moves(board, t, x, y) ==
    LET piece == board[y][x]
    IN  IF piece = None \/ piece.color # t THEN NoMoves
        ELSE get_legal_moves(piece, board, x, y)

Other_NoFlip(t) == t

Other(t) == IF t = "w" THEN "b" ELSE "w"

Commits_AnySquare(bx, by) ==
    /\ selected # NoSelection
    /\ LET piece == Board(grid)[selected[2]][selected[1]]
       IN  piece # None /\ piece.color = turn

\* the conditions of the two nested ifs of the selected branch of Game.run
Commits(bx, by) ==
    /\ selected # NoSelection
    /\ LET piece == Board(grid)[selected[2]][selected[1]]
       IN  /\ piece # None
           /\ piece.color = turn
           /\ InList(<<bx, by>>, highlight_moves)

MovePiece_KeepsSource(bx, by) ==
    /\ grid' = [Board(grid) EXCEPT ![by][bx] = Board(grid)[selected[2]][selected[1]]]
    /\ turn' = Other(turn)

\* the three assignments of a committed move
MovePiece(bx, by) ==
    LET from_x == selected[1]
        from_y == selected[2]
        piece == Board(grid)[from_y][from_x]
    IN  /\ grid' = [Board(grid) EXCEPT ![by][bx] = piece, ![from_y][from_x] = None]
        /\ turn' = Other(turn)

ClearSelection_KeepsMoves ==
    /\ selected' = NoSelection
    /\ UNCHANGED highlight_moves

ClearSelection_KeepsSelection ==
    /\ UNCHANGED selected
    /\ highlight_moves' = <<>>

\* self.selected = None; self.highlight_moves = []
ClearSelection ==
    /\ selected' = NoSelection
    /\ highlight_moves' = <<>>

\* the elif branch: the selection is assigned first, then the moves are
\* generated; a raise leaves highlight_moves as it was and ends the loop
Select(bx, by) ==
    \E r \in {get_valid_moves(Board(grid), turn, bx, by)} :
        /\ selected' = <<bx, by>>
        /\ raised' = r.raised
        /\ highlight_moves' = IF r.raised THEN highlight_moves ELSE r.moves

\* One MOUSEBUTTONDOWN event of Game.run, already mapped to the square (bx, by)
MouseButtonDown(bx, by) ==
    /\ ~raised
    /\ click' = <<bx, by>>
    /\ prev_selected' = selected
    /\ repeats' = IF selected = <<bx, by>> THEN 1
                  ELSE IF repeats = 1 /\ click = <<bx, by>> THEN 2
                  ELSE 0
    /\ LET clicked == Board(grid)[by][bx]
       IN  IF selected # NoSelection
           THEN /\ IF Commits(bx, by)
                   THEN MovePiece(bx, by) /\ nmoves' = nmoves + 1
                   ELSE UNCHANGED <<grid, turn, nmoves>>
                /\ ClearSelection
                /\ UNCHANGED raised
           ELSE IF clicked # None /\ clicked.color = turn
           THEN Select(bx, by) /\ UNCHANGED <<grid, turn, nmoves>>
           ELSE UNCHANGED <<grid, turn, selected, highlight_moves, raised, nmoves>>

\* One MOUSEBUTTONDOWN event of Game.run with the pointer on pixel (px, py)
Event(px, py) ==
    /\ mouse' = <<px, py>>
    /\ MouseButtonDown(ClickSquare(px, py)[1], ClickSquare(px, py)[2])

ClickSquares == (0..MaxClickFile) \X Coord

\* the top-left pixel of the rectangle the square s is drawn in
PixelOf(s) == <<Rect(s[1], s[2]).left, Rect(s[1], s[2]).top>>

\* the state left by Game.__init__, on the given grid with the given side to
\* move and the pointer at pos
StartAt(board, t, pos) ==
    /\ grid = board
    /\ turn = t
    /\ mouse = pos
    /\ selected = NoSelection
    /\ highlight_moves = <<>>
    /\ click = NoClick
    /\ raised = FALSE
    /\ prev_selected = NoSelection
    /\ repeats = 0
    /\ nmoves = 0

Start(board, t) == StartAt(board, t, NoMouse)

\* Game.__init__ and the first Board()
Init == Start(Board(NoInstance), "w")

\* Every click on the squares of ClickSquares, up to MaxMoves committed moves.
Next ==
    \E s \in ClickSquares :
        \E pos \in {PixelOf(s)}, b \in {ClickSquare(PixelOf(s)[1], PixelOf(s)[2])} :
            /\ Commits(b[1], b[2]) => nmoves < MaxMoves
            /\ Event(pos[1], pos[2])

Spec == Init /\ [][Next]_vars

\* a click that picks a piece up
PicksUp(bx, by) ==
    /\ selected = NoSelection
    /\ grid[by][bx] # None
    /\ grid[by][bx].color = turn

\* The same game played deeper on the a and b files by players who pick up
\* only their pawns: every click on those files except one that would select
\* another kind of piece, up to MaxPawnMoves committed moves.
PawnFiles == {0, 1}

NextPawns ==
    \E s \in PawnFiles \X Coord :
        \E pos \in {PixelOf(s)}, b \in {ClickSquare(PixelOf(s)[1], PixelOf(s)[2])} :
            /\ PicksUp(b[1], b[2]) => grid[b[2]][b[1]].symbol = "p"
            /\ Commits(b[1], b[2]) => nmoves < MaxPawnMoves
            /\ Event(pos[1], pos[2])

SpecPawns == Init /\ [][NextPawns]_vars

----------------------------------------------------------------------------
(* The opening: every click on every square of the board, up to            *)
(* MaxOpeningMoves committed moves.                                        *)

MaxOpeningMoves == 1

NextOpening ==
    \E s \in Squares :
        \E pos \in {PixelOf(s)}, b \in {ClickSquare(PixelOf(s)[1], PixelOf(s)[2])} :
            /\ Commits(b[1], b[2]) => nmoves < MaxOpeningMoves
            /\ Event(pos[1], pos[2])

SpecOpening == Init /\ [][NextOpening]_vars

----------------------------------------------------------------------------
(* The generators on arbitrary boards: a piece of any kind and colour on   *)
(* any square, with up to MaxBlockers pawns of either colour on other      *)
(* squares, the piece's side to move.  The only step is the click that     *)
(* picks a piece up, which calls its generator.                            *)

SquareOf(i) == <<i % 8, i \div 8>>

Put(board, sq, piece) == [board EXCEPT ![sq[2]][sq[1]] = piece]

RECURSIVE WithBlockers(_, _, _)
WithBlockers(board, k, from) ==
    IF k = 0 THEN {board}
    ELSE {board} \cup
         UNION { WithBlockers(Put(board, SquareOf(i), Piece(c, "p")), k - 1, i + 1) :
                    i \in {j \in from..63 :
                             board[SquareOf(j)[2]][SquareOf(j)[1]] = None},
                    c \in Colors }

InitGen ==
    \E p \in Pieces, sq \in Squares :
        \E board \in WithBlockers(Put(EmptyGrid, sq, p), MaxBlockers, 0) :
            Start(board, p.color)

NextGen ==
    \E s \in Squares :
        \E pos \in {PixelOf(s)}, b \in {ClickSquare(PixelOf(s)[1], PixelOf(s)[2])} :
            /\ PicksUp(b[1], b[2])
            /\ Event(pos[1], pos[2])

SpecGen == InitGen /\ [][NextGen]_vars

----------------------------------------------------------------------------
(* The pixel mapping: the pointer rests on any pixel of the window when    *)
(* the game starts and the button is pressed there, any number of times.   *)

Pixels == (0..(WIDTH - 1)) \X (0..(HEIGHT - 1))

InitPixels == \E pos \in Pixels : StartAt(Board(NoInstance), "w", pos)

NextPixels == Event(mouse[1], mouse[2])

SpecPixels == InitPixels /\ [][NextPixels]_vars

----------------------------------------------------------------------------
(* Properties *)

At(board, sq) == board[sq[2]][sq[1]]

Generated(board, sq) == get_legal_moves(At(board, sq), board, sq[1], sq[2])

\* C1: in every reachable state the legal-move list is non-empty only if a
\* selection is set, and whenever a selection is set the selected square
\* holds a piece of the colour to move and the list is exactly what move
\* generation returns for that piece on the current board.
C1_LegalMovesAreGenerated ==
    /\ highlight_moves # <<>> => selected # NoSelection
    /\ selected # NoSelection =>
          /\ At(grid, selected) # None
          /\ At(grid, selected).color = turn
          /\ ~Generated(grid, selected).raised
          /\ highlight_moves = Generated(grid, selected).moves

\* C2: the turn changes exactly on a click handled while a selection is set
\* on a square of the legal-move list, and then it flips to the other colour;
\* every click handled while a selection is set leaves no selection and an
\* empty legal-move list.
C2_TurnFlipsExactlyOnCommit ==
    [][ LET committed == selected # NoSelection /\ InList(click', highlight_moves)
        IN  /\ turn' # turn <=> committed
            /\ committed => turn' = (IF turn = "w" THEN "b" ELSE "w")
            /\ selected # NoSelection =>
                  selected' = NoSelection /\ highlight_moves' = <<>> ]_vars

C2_Witness ==
    /\ prev_selected # NoSelection
    /\ nmoves = 1
    /\ turn = "b"
    /\ At(grid, click) # None /\ At(grid, click).color = "w"
    /\ selected = NoSelection
    /\ highlight_moves = <<>>

\* C3: a click with no selection set selects the clicked square, with the
\* generated moves of its piece, when the square holds a piece of the colour
\* to move; otherwise it changes nothing: no selection, no legal moves, same
\* board, same turn.
C3_IdleClick ==
    [][ selected = NoSelection =>
          IF At(grid, click') # None /\ At(grid, click').color = turn
          THEN /\ selected' = click'
               /\ ~Generated(grid, click').raised
               /\ highlight_moves' = Generated(grid, click').moves
          ELSE /\ selected' = NoSelection
               /\ highlight_moves' = <<>>
               /\ grid' = grid
               /\ turn' = turn ]_vars

\* C4: with a selection set, a click on a square that is not in the
\* legal-move list leaves the board and the turn unchanged and ends with no
\* selection: the clicked square is not selected by that click.
C4_ClickOutsideMovesDeselects ==
    [][ (selected # NoSelection /\ ~InList(click', highlight_moves)) =>
          /\ grid' = grid
          /\ turn' = turn
          /\ selected' = NoSelection
          /\ highlight_moves' = <<>> ]_vars

C4_Witness ==
    /\ prev_selected # NoSelection
    /\ click # prev_selected
    /\ At(grid, click) # None /\ At(grid, click).color = turn
    /\ selected = NoSelection
    /\ highlight_moves = <<>>

\* C5: a committed move from sel to S changes exactly two squares: S holds
\* the piece (same kind, same colour) that stood on sel, sel is empty, and
\* every other square is unchanged.
C5_CommitMovesOnePiece ==
    [][ (selected # NoSelection /\ InList(click', highlight_moves)) =>
          /\ click' # selected
          /\ At(grid, selected) # None
          /\ At(grid', click') = At(grid, selected)
          /\ At(grid', selected) = None
          /\ \A sq \in Squares :
                (sq # click' /\ sq # selected) => At(grid', sq) = At(grid, sq) ]_vars

\* a black pawn has just been moved onto row 7, capturing, and is still a pawn
C5_Witness ==
    /\ prev_selected # NoSelection
    /\ At(grid, prev_selected) = None
    /\ click[2] = 7
    /\ At(grid, click) = Piece("b", "p")
    /\ click[1] # prev_selected[1]
    /\ turn = "w"

\* C6: for every piece on every reachable board move generation reads the
\* grid only at indices in 0..7, does not raise and returns only squares of
\* the board; and no click ends in an error.
C6_GenerationStaysInBounds ==
    /\ ~raised
    /\ \A sq \in Squares :
          At(grid, sq) # None =>
             /\ ~Generated(grid, sq).raised
             /\ ~Generated(grid, sq).oob
             /\ \A m \in ListSet(Generated(grid, sq).moves) : InBoard(m[1], m[2])

Occupied(board) == {sq \in Squares : At(board, sq) # None}

\* C7: move generation for a piece standing alone on an otherwise empty
\* board returns only coordinates of the board.
C7_AloneMovesInBoard ==
    (selected # NoSelection /\ Cardinality(Occupied(grid)) = 1) =>
        /\ ~raised
        /\ \A m \in ListSet(highlight_moves) : InBoard(m[1], m[2])

\* C8 as stated: whenever a selection is set the legal-move list is
\* non-empty.
C8_SelectedHasMoves ==
    selected # NoSelection => highlight_moves # <<>>

\* C8: whenever the legal-move list is non-empty a selection is set (a
\* selection may carry an empty list).
C8_MovesOnlyWhenSelected ==
    highlight_moves # <<>> => selected # NoSelection

\* a knight is selected with its generated moves
C8_Witness ==
    /\ highlight_moves # <<>>
    /\ selected # NoSelection
    /\ At(grid, selected).symbol = "n"

\* C9 as stated: two consecutive clicks on the selected square do not change
\* the board or the turn, and after the second there is no selection and no
\* legal move.
C9_TwoClicksEndIdle ==
    [][ /\ repeats' >= 1 => (grid' = grid /\ turn' = turn)
        /\ repeats' = 2 => (selected' = NoSelection /\ highlight_moves' = <<>>) ]_vars

\* C9: two consecutive clicks on the selected square S do not change the
\* board or the turn; the first leaves no selection and no legal move, the
\* second selects S again with the generated moves of its piece.
C9_TwoClicksReselect ==
    [][ /\ repeats' >= 1 => (grid' = grid /\ turn' = turn)
        /\ repeats' = 1 => (selected' = NoSelection /\ highlight_moves' = <<>>)
        /\ repeats' = 2 =>
              /\ selected' = click'
              /\ click' = prev_selected
              /\ ~raised'
              /\ highlight_moves' = Generated(grid, click').moves ]_vars

C9_Witness ==
    /\ repeats = 2
    /\ selected = click
    /\ highlight_moves # <<>>

\* the squares a slider on (x, y) reaches along d: every square whose
\* predecessors on the ray are all empty and that is itself empty or held
\* by the other colour
RaySquares(board, color, x, y, d) ==
    { sq \in Squares :
        \E k \in 1..7 :
           /\ sq = <<x + k * d[1], y + k * d[2]>>
           /\ \A j \in 1..(k - 1) : At(board, <<x + j * d[1], y + j * d[2]>>) = None
           /\ (At(board, sq) = None \/ At(board, sq).color # color) }

AxisDirections == {<<1, 0>>, <<-1, 0>>, <<0, 1>>, <<0, -1>>}
DiagonalDirections == {<<1, 1>>, <<-1, 1>>, <<-1, -1>>, <<1, -1>>}

\* C10: for a rook and a bishop on any board the returned squares are, along
\* each of its four directions, exactly the run of empty squares next to the
\* piece plus the first occupied square when it holds a piece of the other
\* colour, and nothing else; no square is returned twice.
C10_RaysStopAtFirstPiece ==
    (selected # NoSelection /\ At(grid, selected).symbol \in {"r", "b"}) =>
        LET piece == At(grid, selected)
            dirs == IF piece.symbol = "r" THEN AxisDirections ELSE DiagonalDirections
        IN  /\ ~raised
            /\ ListSet(highlight_moves) =
                  UNION { RaySquares(grid, piece.color, selected[1], selected[2], d) :
                             d \in dirs }
            /\ Cardinality(ListSet(highlight_moves)) = Len(highlight_moves)

\* a slider is selected whose list ends a ray of at least two squares on a
\* piece of the other colour
C10_Witness ==
    /\ selected # NoSelection
    /\ At(grid, selected).symbol \in {"r", "b"}
    /\ \E m \in ListSet(highlight_moves) :
          /\ At(grid, m) # None
          /\ (m[1] - selected[1] >= 2 \/ selected[1] - m[1] >= 2
              \/ m[2] - selected[2] >= 2 \/ selected[2] - m[2] >= 2)

\* a square of the board that holds no piece
EmptySquare(board, sq) == InBoard(sq[1], sq[2]) /\ At(board, sq) = None

\* a square of the board that holds a piece of the other colour
OpposingSquare(board, color, sq) ==
    /\ InBoard(sq[1], sq[2])
    /\ At(board, sq) # None
    /\ At(board, sq).color # color

\* the direction a pawn advances in, as a row difference
Ahead(color) == IF color = "w" THEN -1 ELSE 1

StartRank(color) == IF color = "w" THEN 6 ELSE 1

\* the two forward-diagonal coordinates of a pawn on sq
Diagonals(color, sq) ==
    {<<sq[1] - 1, sq[2] + Ahead(color)>>, <<sq[1] + 1, sq[2] + Ahead(color)>>}

\* C11: for a pawn of either colour on any board the two-square move is in
\* the result exactly when the pawn stands on its starting rank (row 6 for
\* White, row 1 for Black) and the one-step and the two-step squares ahead
\* are both empty; in every other case the result holds only the single
\* step ahead, when that square is empty, and the valid diagonal captures.
C11_PawnDoubleStep ==
    (selected # NoSelection /\ At(grid, selected).symbol = "p") =>
        LET color == At(grid, selected).color
            one == <<selected[1], selected[2] + Ahead(color)>>
            two == <<selected[1], selected[2] + 2 * Ahead(color)>>
            double == /\ selected[2] = StartRank(color)
                      /\ EmptySquare(grid, one)
                      /\ EmptySquare(grid, two)
        IN  /\ ~raised
            /\ InList(two, highlight_moves) <=> double
            /\ ~double =>
                  ListSet(highlight_moves) =
                     {sq \in {one} : EmptySquare(grid, sq)} \cup
                     {sq \in Diagonals(color, selected) :
                         OpposingSquare(grid, color, sq)}

\* C12: for a pawn of either colour on any board a forward-diagonal square
\* is in the result exactly when it is inside the board and holds a piece of
\* the other colour; a square straight ahead is in the result only when it
\* is an empty square.
C12_PawnCapturesDiagonally ==
    (selected # NoSelection /\ At(grid, selected).symbol = "p") =>
        LET color == At(grid, selected).color
        IN  /\ ~raised
            /\ \A sq \in Diagonals(color, selected) :
                  InList(sq, highlight_moves) <=> OpposingSquare(grid, color, sq)
            /\ \A m \in ListSet(highlight_moves) :
                  m[1] = selected[1] => EmptySquare(grid, m)

\* C13: the list returned for a queen holds exactly the squares returned for
\* a rook together with those returned for a bishop of the same colour on
\* the same coordinate of the same board, and holds no square twice.
C13_QueenIsRookPlusBishop ==
    (selected # NoSelection /\ At(grid, selected).symbol = "q") =>
        LET color == At(grid, selected).color
            rook == Rook_get_legal_moves(grid, color, selected[1], selected[2])
            bishop == Bishop_get_legal_moves(grid, color, selected[1], selected[2])
        IN  /\ ~raised
            /\ ListSet(highlight_moves) = ListSet(rook.moves) \cup ListSet(bishop.moves)
            /\ Cardinality(ListSet(highlight_moves)) = Len(highlight_moves)

\* a queen is selected whose list holds a rook square and a bishop square,
\* one of them a capture
C13_Witness ==
    /\ selected # NoSelection
    /\ At(grid, selected).symbol = "q"
    /\ \E a, b \in ListSet(highlight_moves) :
          /\ a[1] = selected[1]
          /\ b[1] # selected[1] /\ b[2] # selected[2]
          /\ (At(grid, a) # None \/ At(grid, b) # None)

\* the squares a king (one step in any direction) or a knight (an L) on sq
\* is offered: the offset targets on the board that are empty or held by the
\* other colour
OffsetTargets(board, piece, sq) ==
    { t \in Squares :
        LET dx == IF t[1] >= sq[1] THEN t[1] - sq[1] ELSE sq[1] - t[1]
            dy == IF t[2] >= sq[2] THEN t[2] - sq[2] ELSE sq[2] - t[2]
        IN  /\ IF piece.symbol = "k"
               THEN dx <= 1 /\ dy <= 1 /\ dx + dy >= 1
               ELSE {dx, dy} = {1, 2}
            /\ (At(board, t) = None \/ At(board, t).color # piece.color) }

\* C14: for a king and for a knight the result is exactly the set of its
\* eight offset targets that lie on the board and are empty or hold a piece
\* of the other colour, each once; a target holding a piece of its own colour
\* is never returned, and pieces standing anywhere else change nothing.
C14_KingKnightOffsets ==
    (selected # NoSelection /\ At(grid, selected).symbol \in {"k", "n"}) =>
        /\ ~raised
        /\ ListSet(highlight_moves) = OffsetTargets(grid, At(grid, selected), selected)
        /\ Cardinality(ListSet(highlight_moves)) = Len(highlight_moves)
        /\ \A m \in ListSet(highlight_moves) :
              At(grid, m) = None \/ At(grid, m).color # At(grid, selected).color

\* a knight with all eight targets on offer jumps a piece standing next to it
C14_Witness ==
    /\ selected # NoSelection
    /\ At(grid, selected).symbol = "n"
    /\ Len(highlight_moves) = 8
    /\ At(grid, <<selected[1] + 1, selected[2]>>) # None

\* the standard arrangement after one white pawn has gone one square ahead
PawnStepped(board) ==
    \E x \in Coord :
        /\ board[6][x] = None
        /\ board[5][x] = Piece("w", "p")
        /\ [board EXCEPT ![6][x] = Piece("w", "p"), ![5][x] = None] = init_pieces

\* C15: from the initial state, a click on any white pawn selects it with a
\* non-empty move list that holds the square directly ahead; a click on that
\* square then moves the pawn there, empties its former square, clears the
\* selection and gives the turn to Black; from there, once Black has
\* selected any of its pieces, a click on any square outside its moves
\* leaves the board unchanged and clears the selection, still Black to move.
C15_OpeningPawnStep ==
    [][ /\ (nmoves = 0 /\ selected = NoSelection
             /\ At(grid, click') = Piece("w", "p")) =>
               /\ selected' = click'
               /\ highlight_moves' # <<>>
               /\ InList(<<click'[1], click'[2] - 1>>, highlight_moves')
               /\ grid' = grid /\ turn' = "w"
        /\ (nmoves = 0 /\ selected # NoSelection
             /\ At(grid, selected) = Piece("w", "p")
             /\ click' = <<selected[1], selected[2] - 1>>) =>
               /\ selected' = NoSelection
               /\ highlight_moves' = <<>>
               /\ At(grid', click') = Piece("w", "p")
               /\ At(grid', selected) = None
               /\ PawnStepped(grid')
               /\ turn' = "b"
        /\ (PawnStepped(grid) /\ turn = "b" /\ selected # NoSelection
             /\ ~InList(click', highlight_moves)) =>
               /\ At(grid, selected).color = "b"
               /\ grid' = grid
               /\ selected' = NoSelection
               /\ highlight_moves' = <<>>
               /\ turn' = "b" ]_vars

\* after a white pawn's step Black picked up a knight and then clicked a
\* white pawn, which is not among the knight's moves
C15_Witness ==
    /\ PawnStepped(grid)
    /\ nmoves = 1
    /\ turn = "b"
    /\ selected = NoSelection
    /\ prev_selected # NoSelection
    /\ At(grid, prev_selected) = Piece("b", "n")
    /\ At(grid, click) = Piece("w", "p")

\* the back rank on files 0..7: rook, knight, bishop, queen, king, bishop,
\* knight, rook
BackRank(c) ==
    << Piece(c, "r"), Piece(c, "n"), Piece(c, "b"), Piece(c, "q"),
       Piece(c, "k"), Piece(c, "b"), Piece(c, "n"), Piece(c, "r") >>

StandardArrangement(board) ==
    \A x \in Coord :
        /\ board[7][x] = BackRank("w")[x + 1]
        /\ board[6][x] = Piece("w", "p")
        /\ \A y \in 2..5 : board[y][x] = None
        /\ board[1][x] = Piece("b", "p")
        /\ board[0][x] = BackRank("b")[x + 1]

\* C16: the game starts on the standard arrangement (White's back rank on
\* row 7, its pawns on row 6, Black's pawns on row 1, its back rank on row 0,
\* rows 2..5 empty), and the board is built once: no later access resets
\* it, a square changes only as the source or the target of a move.
C16_StandardBoardBuiltOnce ==
    /\ StandardArrangement(grid)
    /\ [][ \A sq \in Squares :
              At(grid', sq) # At(grid, sq) =>
                 /\ selected # NoSelection
                 /\ sq \in {selected, click'}
                 /\ At(grid', sq) = IF sq = selected THEN None ELSE At(grid, selected)
          ]_vars

\* two moves have been made and both pieces are still where they were moved
\* to: four squares differ from the standard arrangement
C16_Witness ==
    /\ nmoves = 2
    /\ Cardinality({sq \in Squares : At(grid, sq) # At(init_pieces, sq)}) = 4
    /\ ~StandardArrangement(grid)

\* C17: whenever a selection is set the selected square holds a piece of the
\* colour to move, so the guard re-checked by the next click is true; and the
\* piece moved by the n-th committed move is White's when n is odd and
\* Black's when n is even.
C17_SelectionIsMoversPiece ==
    [][ /\ selected # NoSelection =>
              (At(grid, selected) # None /\ At(grid, selected).color = turn)
        /\ selected' # NoSelection =>
              (At(grid', selected') # None /\ At(grid', selected').color = turn')
        /\ nmoves' # nmoves =>
              /\ nmoves' = nmoves + 1
              /\ selected # NoSelection
              /\ At(grid', click') = At(grid, selected)
              /\ At(grid', click').color = IF nmoves' % 2 = 1 THEN "w" ELSE "b" ]_vars

\* Black has just made the fourth committed move
C17_Witness ==
    /\ nmoves = 4
    /\ prev_selected # NoSelection
    /\ selected = NoSelection
    /\ At(grid, click) # None /\ At(grid, click).color = "b"
    /\ turn = "w"

PieceCount(board, c) == Cardinality({sq \in Squares : At(board, sq).color = c})

\* C18: a committed move never lands on a piece of the mover's colour; it
\* leaves the mover's number of pieces unchanged and lowers the opponent's
\* by 0 or 1; no other click changes either number; neither colour ever has
\* more than 16 pieces.
C18_CapturesOnlyOpponents ==
    [][ LET commit == selected # NoSelection /\ InList(click', highlight_moves)
            opponent == IF turn = "w" THEN "b" ELSE "w"
        IN  /\ commit =>
                  /\ At(grid, click').color # turn
                  /\ PieceCount(grid', turn) = PieceCount(grid, turn)
                  /\ PieceCount(grid, opponent) - PieceCount(grid', opponent) \in {0, 1}
            /\ ~commit =>
                  \A c \in Colors : PieceCount(grid', c) = PieceCount(grid, c)
            /\ \A c \in Colors :
                  PieceCount(grid, c) <= 16 /\ PieceCount(grid', c) <= 16 ]_vars

\* White has just captured: Black is down to 15 pieces, White still has 16
C18_Witness ==
    /\ prev_selected # NoSelection
    /\ selected = NoSelection
    /\ turn = "b"
    /\ At(grid, click) # None /\ At(grid, click).color = "w"
    /\ At(grid, prev_selected) = None
    /\ PieceCount(grid, "b") = 15
    /\ PieceCount(grid, "w") = 16

\* the pixels covered by a rectangle: left <= px < left + width and
\* top <= py < top + height
InRect(pos, rect) ==
    /\ rect.left <= pos[1] /\ pos[1] < rect.left + rect.width
    /\ rect.top <= pos[2] /\ pos[2] < rect.top + rect.height

\* C19: a click on any pixel (px, py) with 0 <= px, py < 640 is mapped to a
\* square with both coordinates in 0..7, and the mapping inverts the drawing:
\* the pixel lies in the 80 by 80 rectangle with top-left corner
\* (x * 80, (7 - y) * 80) drawn for (x, y) exactly when the click is mapped
\* to (x, y).
C19_PixelMapping ==
    click # NoClick =>
        /\ mouse \in Pixels
        /\ click \in Squares
        /\ Rect(click[1], click[2]) =
              [left |-> click[1] * 80, top |-> (7 - click[2]) * 80,
               width |-> 80, height |-> 80]
        /\ \A sq \in Squares : InRect(mouse, Rect(sq[1], sq[2])) <=> click = sq

\* the click on the last pixel column of the a file, first pixel row of row
\* 6, picks up the pawn on (0, 6)
C19_Witness ==
    /\ mouse = <<79, 80>>
    /\ click = <<0, 6>>
    /\ selected = <<0, 6>>

====
